---- MODULE Spec2Model ----
(***************************************************************************)
(* Vertex Color Utils (src/__init__.py): channel masks, channel swizzle    *)
(* and the modal vertex colour sampler, as a state machine.                *)
(*                                                                         *)
(* A name is a sequence of one-character strings, so that the suffix tests *)
(* and slices of attr_name_is_mask / get_mask_name_parts are computed as   *)
(* the code computes them.  A colour is a 4-tuple <<r, g, b, a>> of        *)
(* channel values; a layer is a record [name, domain, data].               *)
(***************************************************************************)
EXTENDS Integers, Sequences, FiniteSets, TLC

VARIABLES
    mesh,          \* ob.data: vertex count, loop count and polygons of the active mesh
    layers,        \* mesh.color_attributes: sequence of layers, in collection order
    active,        \* mesh.color_attributes.active_color (a layer name)
    edits,         \* number of data edits (paint strokes, swizzles) done so far
    last,          \* the last command: its operator, return value, report and inputs
    pre,           \* the collection before the create-mask that made the newest mask (history)
    handlers,      \* the window's modal handlers of the sampler, newest first
    sample_vertex_color_timer,   \* module global (line 452)
    prev_show_brush,             \* module global (line 453)
    wm_timers,     \* window_manager: the set of armed event timers
    show_brush,    \* tool_settings.vertex_paint.show_brush
    cursor,        \* window modal cursor
    header_text,   \* area header text
    status_text,   \* workspace status text
    info_log,      \* the host's informational log (self.report({'INFO'}, ...))
    brush_color,   \* tool_settings.vertex_paint.brush.color
    channels_prop, \* the `channels` property of the create-mask operator (line 156)
    shown_on_entry \* show_brush as it was when the sampler was last entered from idle (history)

maskVars == <<mesh, layers, active, edits, pre, channels_prop>>

samplerVars == <<handlers, sample_vertex_color_timer, prev_show_brush, wm_timers,
                 show_brush, cursor, header_text, status_text, info_log, brush_color,
                 shown_on_entry>>

vars == <<mesh, layers, active, edits, last, pre, handlers, sample_vertex_color_timer,
          prev_show_brush, wm_timers, show_brush, cursor, header_text, status_text,
          info_log, brush_color, channels_prop, shown_on_entry>>

----------------------------------------------------------------------------
(* Bounds *)

\* at most MaxEdits data edits (paint strokes and swizzles) in a run
MaxEdits == 1

\* at most MaxLayers colour layers on the mesh
MaxLayers == 3

None == "None"

----------------------------------------------------------------------------
(* Strings *)

Range(s) == {s[i] : i \in 1..Len(s)}

\* str.endswith
endswith(name, suffix) ==
    /\ Len(name) >= Len(suffix)
    /\ SubSeq(name, Len(name) - Len(suffix) + 1, Len(name)) = suffix

\* name[:-k]
DropLast(name, k) == SubSeq(name, 1, Len(name) - k)

\* name[-k:]
TakeLast(name, k) == SubSeq(name, Len(name) - k + 1, Len(name))

Sep == <<"_", "_">>

Channels == {"R", "G", "B", "A"}

----------------------------------------------------------------------------
(* Channel strings and mask names (lines 335-392) *)

\* variant: alpha is appended to the letters of R, G and B
make_channel_str_alpha_last(channels) ==
    (IF "R" \in channels THEN <<"R">> ELSE <<>>)
    \o (IF "G" \in channels THEN <<"G">> ELSE <<>>)
    \o (IF "B" \in channels THEN <<"B">> ELSE <<>>)
    \o (IF "A" \in channels THEN <<"A">> ELSE <<>>)

make_channel_str(channels) ==
    IF "A" \in channels
    THEN <<"A">>
    ELSE (IF "R" \in channels THEN <<"R">> ELSE <<>>)
         \o (IF "G" \in channels THEN <<"G">> ELSE <<>>)
         \o (IF "B" \in channels THEN <<"B">> ELSE <<>>)

make_channel_set(channel_str) ==
    {c \in Channels : c \in Range(channel_str)}

attr_name_is_mask(name) ==
    \/ endswith(name, <<"_", "_", "R">>)
    \/ endswith(name, <<"_", "_", "G">>)
    \/ endswith(name, <<"_", "_", "B">>)
    \/ endswith(name, <<"_", "_", "A">>)
    \/ endswith(name, <<"_", "_", "R", "G">>)
    \/ endswith(name, <<"_", "_", "R", "B">>)
    \/ endswith(name, <<"_", "_", "G", "B">>)
    \/ endswith(name, <<"_", "_", "R", "G", "B">>)

\* variant: every mask name is cut as if its code had one letter
get_mask_name_parts_one_letter(name) ==
    IF attr_name_is_mask(name)
    THEN <<DropLast(name, 3), TakeLast(name, 1)>>
    ELSE <<name, <<>>>>

\* returns <<base name, channel str>>
get_mask_name_parts(name) ==
    IF \/ endswith(name, <<"_", "_", "R">>)
       \/ endswith(name, <<"_", "_", "G">>)
       \/ endswith(name, <<"_", "_", "B">>)
       \/ endswith(name, <<"_", "_", "A">>)
    THEN <<DropLast(name, 3), TakeLast(name, 1)>>
    ELSE IF \/ endswith(name, <<"_", "_", "R", "G">>)
            \/ endswith(name, <<"_", "_", "R", "B">>)
            \/ endswith(name, <<"_", "_", "G", "B">>)
    THEN <<DropLast(name, 4), TakeLast(name, 2)>>
    ELSE IF endswith(name, <<"_", "_", "R", "G", "B">>)
    THEN <<DropLast(name, 5), TakeLast(name, 3)>>
    ELSE <<name, <<>>>>

\* the property setter of `channels` followed by its update callback
\* (lines 132-141, 156): the value the operator property holds afterwards
channels_prop_update(in_update, channels) ==
    IF ~in_update
    THEN IF "A" \in channels /\ Cardinality(channels) > 1 THEN {"A"} ELSE channels
    ELSE channels

----------------------------------------------------------------------------
(* The layer collection *)

Names(ls) == {ls[i].name : i \in 1..Len(ls)}

\* color_attrs[name]
Lookup(ls, name) == ls[CHOOSE i \in 1..Len(ls) : ls[i].name = name]

IndexOf(ls, name) == CHOOSE i \in 1..Len(ls) : ls[i].name = name

\* len(attr.data) of a layer the host creates in a domain: one colour per
\* vertex (POINT) or per loop (CORNER)
ElemCount(m, domain) == IF domain = "POINT" THEN m.nverts ELSE m.nloops

\* variant: the mask layer is not removed
RemoveLayer_keeps(ls, name) == ls

\* color_attrs.remove(attr)
RemoveLayer(ls, name) ==
    LET k == IndexOf(ls, name)
    IN SubSeq(ls, 1, k - 1) \o SubSeq(ls, k + 1, Len(ls))

----------------------------------------------------------------------------
(* Copy tables (lines 232-310) *)

\* variant: the mask keeps the base's alpha instead of alpha 1
to_mask_color_keeps_alpha(c, ch) ==
    CASE ch = <<"R">>           -> <<c[1], 0, 0, c[4]>>
      [] ch = <<"G">>           -> <<0, c[2], 0, c[4]>>
      [] ch = <<"B">>           -> <<0, 0, c[3], c[4]>>
      [] ch = <<"A">>           -> <<c[4], c[4], c[4], c[4]>>
      [] ch = <<"R", "G">>      -> <<c[1], c[2], 0, c[4]>>
      [] ch = <<"R", "B">>      -> <<c[1], 0, c[3], c[4]>>
      [] ch = <<"G", "B">>      -> <<0, c[2], c[3], c[4]>>
      [] ch = <<"R", "G", "B">> -> <<c[1], c[2], c[3], c[4]>>

\* the colour copy_to_mask writes into one mask element
to_mask_color(c, ch) ==
    CASE ch = <<"R">>           -> <<c[1], 0, 0, 1>>
      [] ch = <<"G">>           -> <<0, c[2], 0, 1>>
      [] ch = <<"B">>           -> <<0, 0, c[3], 1>>
      [] ch = <<"A">>           -> <<c[4], c[4], c[4], 1>>
      [] ch = <<"R", "G">>      -> <<c[1], c[2], 0, 1>>
      [] ch = <<"R", "B">>      -> <<c[1], 0, c[3], 1>>
      [] ch = <<"G", "B">>      -> <<0, c[2], c[3], 1>>
      [] ch = <<"R", "G", "B">> -> <<c[1], c[2], c[3], 1>>

\* variant: code A reads the mask's alpha instead of its red
from_mask_color_alpha_from_alpha(b, m, ch) ==
    CASE ch = <<"R">>           -> <<m[1], b[2], b[3], b[4]>>
      [] ch = <<"G">>           -> <<b[1], m[2], b[3], b[4]>>
      [] ch = <<"B">>           -> <<b[1], b[2], m[3], b[4]>>
      [] ch = <<"A">>           -> <<b[1], b[2], b[3], m[4]>>
      [] ch = <<"R", "G">>      -> <<m[1], m[2], b[3], b[4]>>
      [] ch = <<"R", "B">>      -> <<m[1], b[2], m[3], b[4]>>
      [] ch = <<"G", "B">>      -> <<b[1], m[2], m[3], b[4]>>
      [] ch = <<"R", "G", "B">> -> <<m[1], m[2], m[3], b[4]>>

\* variant: a code without alpha copies red, green and blue, whatever it names
from_mask_color_whole_rgb(b, m, ch) ==
    IF ch = <<"A">>
    THEN <<b[1], b[2], b[3], m[1]>>
    ELSE <<m[1], m[2], m[3], b[4]>>

\* the colour copy_from_mask leaves in one base element
from_mask_color(b, m, ch) ==
    CASE ch = <<"R">>           -> <<m[1], b[2], b[3], b[4]>>
      [] ch = <<"G">>           -> <<b[1], m[2], b[3], b[4]>>
      [] ch = <<"B">>           -> <<b[1], b[2], m[3], b[4]>>
      [] ch = <<"A">>           -> <<b[1], b[2], b[3], m[1]>>
      [] ch = <<"R", "G">>      -> <<m[1], m[2], b[3], b[4]>>
      [] ch = <<"R", "B">>      -> <<m[1], b[2], m[3], b[4]>>
      [] ch = <<"G", "B">>      -> <<b[1], m[2], m[3], b[4]>>
      [] ch = <<"R", "G", "B">> -> <<m[1], m[2], m[3], b[4]>>

ValidCodes ==
    { <<"R">>, <<"G">>, <<"B">>, <<"A">>, <<"R", "G">>, <<"R", "B">>, <<"G", "B">>,
      <<"R", "G", "B">> }

\* TRUE when copy_to_mask / copy_from_mask raise RuntimeError (lines 238, 266, 276, 309)
copy_raises(base, mask, ch) ==
    \/ Len(base.data) # Len(mask.data)
    \/ ch \notin ValidCodes

\* the mask's data after copy_to_mask(base, mask, ch)
copy_to_mask(base, mask, ch) ==
    [i \in 1..Len(base.data) |-> to_mask_color(base.data[i], ch)]

\* the base's data after copy_from_mask(base, mask, ch)
copy_from_mask(base, mask, ch) ==
    [i \in 1..Len(base.data) |-> from_mask_color(base.data[i], mask.data[i], ch)]

\* the first of the positions `hits` in collection order, 0 when there is none
FirstOf(hits) == IF hits = {} THEN 0 ELSE CHOOSE i \in hits : \A j \in hits : i <= j

\* variant: only a mask of exactly the requested code conflicts
check_for_conflicting_mask_same_code(color_attrs, base_name, channels) ==
    FirstOf({i \in 1..Len(color_attrs) :
                /\ attr_name_is_mask(color_attrs[i].name)
                /\ get_mask_name_parts(color_attrs[i].name)[1] = base_name
                /\ get_mask_name_parts(color_attrs[i].name)[2] = make_channel_str(channels)})

\* variant: no conflict is ever found
check_for_conflicting_mask_never(color_attrs, base_name, channels) == 0

\* variant: the base recorded in the mask's name is not compared
check_for_conflicting_mask_any_base(color_attrs, base_name, channels) ==
    FirstOf({i \in 1..Len(color_attrs) :
                /\ attr_name_is_mask(color_attrs[i].name)
                /\ \E c \in channels :
                      c \in Range(get_mask_name_parts(color_attrs[i].name)[2])})

\* check_for_conflicting_mask: the first layer, in collection order, that is a mask
\* of base_name and whose code holds a requested channel; 0 when there is none
check_for_conflicting_mask(color_attrs, base_name, channels) ==
    FirstOf({i \in 1..Len(color_attrs) :
                /\ attr_name_is_mask(color_attrs[i].name)
                /\ get_mask_name_parts(color_attrs[i].name)[1] = base_name
                /\ \E c \in channels :
                      c \in Range(get_mask_name_parts(color_attrs[i].name)[2])})

\* the channels the inner loop (lines 389-391) may return for the conflicting layer:
\* iteration order of a Python set is not fixed, so any shared channel
conflict_channels(attr, channels) ==
    {c \in channels : c \in Range(get_mask_name_parts(attr.name)[2])}

----------------------------------------------------------------------------
(* Command outcomes *)

\* what the last command left behind: the operator, its return value, the
\* report it made, the branch it took, the value of its property (or its
\* event) when it started and when it returned, and the layer / channel the
\* report names
Outcome(op, ret, report, branch, arg, prop, about) ==
    [op |-> op, ret |-> ret, report |-> report, branch |-> branch,
     arg |-> arg, prop |-> prop, about |-> about]

NoOutcome == Outcome("none", None, None, None, None, None, None)

----------------------------------------------------------------------------
(* Create mask (lines 162-197, 313-332) *)

MaskName(base_name, channel_str) == base_name \o Sep \o channel_str

\* the data of a layer color_attrs.new() has just made, before anything is copied in
NewLayerData(domain) == [i \in 1..ElemCount(mesh, domain) |-> <<0, 0, 0, 0>>]

\* variant: the base is not fetched again after color_attrs.new (line 329) and
\* the copy lands in the base layer, the new layer staying as it was made
create_color_channel_mask_stale_base(ls, base_attr, channel_str) ==
    LET mask_attr_name == MaskName(base_attr.name, channel_str)
        mask_attr == [name |-> mask_attr_name, domain |-> base_attr.domain,
                      data |-> NewLayerData(base_attr.domain)]
    IN IF mask_attr_name \in Names(ls)
       THEN ls
       ELSE IF copy_raises(base_attr, mask_attr, channel_str)
       THEN Append(ls, mask_attr)
       ELSE Append([ls EXCEPT ![IndexOf(ls, base_attr.name)].data =
                        copy_to_mask(base_attr, base_attr, channel_str)],
                   mask_attr)

\* create_color_channel_mask: the collection afterwards.  An existing layer of
\* the composite name is returned as it is; otherwise a layer is added and
\* filled by copy_to_mask (or left as made when copy_to_mask raises).
create_color_channel_mask(ls, base_attr, channel_str) ==
    LET mask_attr_name == MaskName(base_attr.name, channel_str)
        mask_attr == [name |-> mask_attr_name, domain |-> base_attr.domain,
                      data |-> NewLayerData(base_attr.domain)]
    IN IF mask_attr_name \in Names(ls)
       THEN ls
       ELSE IF copy_raises(base_attr, mask_attr, channel_str)
       THEN Append(ls, mask_attr)
       ELSE Append(ls, [mask_attr EXCEPT !.data = copy_to_mask(base_attr, mask_attr, channel_str)])

\* variant: an active mask whose base is missing is itself taken as the base
ResolveBase_falls_back(ls, act) ==
    IF attr_name_is_mask(act) /\ get_mask_name_parts(act)[1] \in Names(ls)
    THEN get_mask_name_parts(act)[1]
    ELSE act

\* the layer create-mask works on: the active layer, or the recorded base of an
\* active mask (lines 175-179); None when that base is missing
ResolveBase(ls, act) ==
    IF attr_name_is_mask(act)
    THEN IF get_mask_name_parts(act)[1] \in Names(ls)
         THEN get_mask_name_parts(act)[1]
         ELSE None
    ELSE act

\* the collection create-mask leaves behind when run with `chans` on layer `act`
create_result(ls, act, chans) ==
    LET base_name == ResolveBase(ls, act)
    IN IF make_channel_str(chans) = <<>> \/ base_name = None
       THEN ls
       ELSE IF check_for_conflicting_mask(ls, base_name, chans) # 0
       THEN ls
       ELSE create_color_channel_mask(ls, Lookup(ls, base_name), make_channel_str(chans))

CreateMask(S) ==
    LET chans == channels_prop_update(FALSE, S)
        channel_str == make_channel_str(chans)
        base_name == ResolveBase(layers, active)
    IN
    /\ UNCHANGED <<mesh, edits, samplerVars>>
    \* a layer is added only while the collection holds less than MaxLayers
    /\ IF Len(layers) < MaxLayers
       THEN TRUE
       ELSE Len(create_result(layers, active, chans)) = Len(layers)
    /\ IF channel_str = <<>>
       THEN /\ UNCHANGED <<layers, active>>
            /\ pre' = <<>>
            /\ last' = Outcome("create", "FINISHED", None, "empty", chans, chans, None)
       ELSE IF base_name = None
       THEN /\ UNCHANGED <<layers, active>>
            /\ pre' = <<>>
            /\ last' = Outcome("create", "CANCELLED", "ERROR_INVALID_INPUT", "nobase",
                               chans, chans, active)
       ELSE LET base_attr == Lookup(layers, base_name)
                k == check_for_conflicting_mask(layers, base_attr.name, chans)
            IN IF k # 0
               THEN /\ UNCHANGED layers
                    /\ active' = layers[k].name
                    /\ pre' = <<>>
                    /\ \E c \in conflict_channels(layers[k], chans) :
                         last' = Outcome("create", "FINISHED", "WARNING", "conflict", chans,
                                   channels_prop_update(FALSE,
                                     make_channel_set(get_mask_name_parts(layers[k].name)[2])),
                                   <<c, layers[k].name>>)
               ELSE LET mask_attr_name == MaskName(base_attr.name, channel_str)
                        made == create_color_channel_mask(layers, base_attr, channel_str)
                    IN IF /\ mask_attr_name \notin Names(layers)
                          /\ copy_raises(base_attr, Lookup(made, mask_attr_name), channel_str)
                       THEN /\ layers' = made
                            /\ UNCHANGED active
                            /\ pre' = <<>>
                            /\ last' = Outcome("create", "RAISED", None, "raised", chans, chans,
                                               mask_attr_name)
                       ELSE /\ layers' = made
                            /\ active' = mask_attr_name
                            /\ pre' = layers
                            /\ last' = Outcome("create", "FINISHED", None,
                                         IF mask_attr_name \in Names(layers)
                                         THEN "reused" ELSE "created",
                                         chans, chans, mask_attr_name)
    \* the property keeps the value execute left in it (line 191)
    /\ channels_prop' = last'.prop

----------------------------------------------------------------------------
(* Apply mask (lines 210-229) *)

\* the base layer's data replaced by what copy_from_mask leaves in it
ApplyToBase(ls, base_name, mask_name, channel_str) ==
    [ls EXCEPT ![IndexOf(ls, base_name)].data =
        copy_from_mask(Lookup(ls, base_name), Lookup(ls, mask_name), channel_str)]

\* the collection a successful apply-mask of the layer mask_name leaves behind:
\* the base written by copy_from_mask (line 226), then the mask removed (line 228)
apply_mask_result(ls, mask_name) ==
    RemoveLayer(ApplyToBase(ls, get_mask_name_parts(mask_name)[1], mask_name,
                            get_mask_name_parts(mask_name)[2]),
                mask_name)

ApplyMask ==
    LET mask_attr == Lookup(layers, active)
        base_name == get_mask_name_parts(mask_attr.name)[1]
        channel_str == get_mask_name_parts(mask_attr.name)[2]
    IN
    /\ UNCHANGED <<mesh, edits, channels_prop, samplerVars>>
    \* the history of a mask just created is kept while that mask is applied
    /\ pre' = IF last.op = "create" /\ last.branch = "created" THEN pre ELSE <<>>
    /\ IF ~attr_name_is_mask(mask_attr.name)
       THEN /\ UNCHANGED <<layers, active>>
            /\ last' = Outcome("apply", "CANCELLED", "ERROR_INVALID_INPUT", "notmask",
                               None, None, mask_attr.name)
       ELSE IF base_name \notin Names(layers)
       THEN /\ UNCHANGED <<layers, active>>
            /\ last' = Outcome("apply", "CANCELLED", "ERROR_INVALID_INPUT", "nobase",
                               None, None, mask_attr.name)
       ELSE IF copy_raises(Lookup(layers, base_name), mask_attr, channel_str)
       THEN /\ UNCHANGED <<layers, active>>
            /\ last' = Outcome("apply", "RAISED", None, "raised", None, None, mask_attr.name)
       ELSE /\ layers' = apply_mask_result(layers, mask_attr.name)
            \* the host makes one of the remaining layers the active one
            /\ active' \in Names(layers')
            /\ last' = Outcome("apply", "FINISHED", None, "applied", None, None, mask_attr.name)

----------------------------------------------------------------------------
(* Host operations on the layers: choosing the active layer, painting *)

SelectLayer(n) ==
    /\ n \in Names(layers)
    /\ n # active
    /\ active' = n
    /\ pre' = <<>>
    /\ last' = Outcome("select", None, None, None, None, None, n)
    /\ UNCHANGED <<mesh, layers, edits, channels_prop, samplerVars>>

\* the `channels` property of the create-mask operator is assigned the flag
\* set S (a click in the operator's popup, or a script), and the host then runs
\* the update callback (lines 132-141, 156)
AssignChannels(S) ==
    /\ channels_prop' = channels_prop_update(FALSE, S)
    /\ pre' = <<>>
    /\ last' = Outcome("channels", None, None, None, S, channels_prop', None)
    /\ UNCHANGED <<mesh, layers, active, edits, samplerVars>>

\* the colours a paint stroke writes.  A channel value is a token: 0 and 1 are
\* the constants the copy tables write, the others stand for painted values.
\* Within a colour the four channels differ, and they differ from 0 and 1, so
\* that a channel copied from the wrong place shows.
PaintColors == { <<5, 2, 3, 4>> }

\* one vertex-paint edit: element i of the active layer becomes colour c
Paint(i, c) ==
    /\ edits < MaxEdits
    /\ i \in 1..Len(Lookup(layers, active).data)
    /\ Lookup(layers, active).data[i] # c
    /\ layers' = [layers EXCEPT ![IndexOf(layers, active)].data[i] = c]
    /\ edits' = edits + 1
    /\ pre' = <<>>
    /\ last' = Outcome("paint", None, None, None, None, None, active)
    /\ UNCHANGED <<mesh, active, channels_prop, samplerVars>>

----------------------------------------------------------------------------
(* Swizzle (lines 412-444) *)

\* str.upper() on one character
upper_char(x) ==
    CASE x = "r" -> "R"
      [] x = "g" -> "G"
      [] x = "b" -> "B"
      [] x = "a" -> "A"
      [] OTHER -> x

\* str.upper()
upper(str) == [i \in 1..Len(str) |-> upper_char(str[i])]

\* m = {'R':0, 'G':1, 'B':2, 'A':3, '0':4, '1':5}
swizzle_index(x) ==
    CASE x = "R" -> 0
      [] x = "G" -> 1
      [] x = "B" -> 2
      [] x = "A" -> 3
      [] x = "0" -> 4
      [] x = "1" -> 5

\* variant: each channel is written before the next one is read
swizzle_color_in_place(c, swizzle_str) ==
    LET c1 == <<(c \o <<0, 1>>)[swizzle_index(swizzle_str[1]) + 1], c[2], c[3], c[4]>>
        c2 == <<c1[1], (c1 \o <<0, 1>>)[swizzle_index(swizzle_str[2]) + 1], c1[3], c1[4]>>
        c3 == <<c2[1], c2[2], (c2 \o <<0, 1>>)[swizzle_index(swizzle_str[3]) + 1], c2[4]>>
    IN <<c3[1], c3[2], c3[3], (c3 \o <<0, 1>>)[swizzle_index(swizzle_str[4]) + 1]>>

\* the colour one element gets: col is the 6-slot vector read before the write
swizzle_color(c, swizzle_str) ==
    LET col == <<c[1], c[2], c[3], c[4], 0, 1>>
    IN <<col[swizzle_index(swizzle_str[1]) + 1],
         col[swizzle_index(swizzle_str[2]) + 1],
         col[swizzle_index(swizzle_str[3]) + 1],
         col[swizzle_index(swizzle_str[4]) + 1]>>

\* the layer's data after swizzle_channels(attr, swizzle_str)
swizzle_channels(attr, swizzle_str) ==
    [i \in 1..Len(attr.data) |-> swizzle_color(attr.data[i], swizzle_str)]

SwizzleSymbols == {"R", "G", "B", "A", "0", "1"}

\* the input check of execute (lines 419-426): TRUE when the code is refused
swizzle_invalid(str) ==
    \/ Len(str) # 4
    \/ \E i \in 1..Len(str) : upper(str)[i] \notin SwizzleSymbols

\* line 428: some channel is lost
swizzle_warns(str) == ~(Channels \subseteq Range(str))

Swizzle(code) ==
    /\ pre' = <<>>
    /\ UNCHANGED <<mesh, active, channels_prop, samplerVars>>
    /\ IF swizzle_invalid(code)
       THEN /\ UNCHANGED <<layers, edits>>
            /\ last' = Outcome("swizzle", "CANCELLED", "ERROR_INVALID_INPUT", "invalid",
                               code, code, active)
       ELSE /\ edits < MaxEdits
            /\ layers' = [layers EXCEPT ![IndexOf(layers, active)].data =
                             swizzle_channels(Lookup(layers, active), upper(code))]
            /\ edits' = edits + 1
            /\ last' = Outcome("swizzle", "FINISHED",
                               IF swizzle_warns(upper(code)) THEN "WARNING" ELSE None,
                               "swizzled", code, code, active)

----------------------------------------------------------------------------
(* Sample vertex colour (lines 452-658) *)

\* at most MaxHandlers sampler loops installed at a time
MaxHandlers == 2

\* at most MaxLog entries in the informational log
MaxLog == 1

\* the numbers of vertices of the faces of the meshes used here: triangles,
\* and a face without vertices
FaceSizes == {0, 3}

\* the distances of a face's vertices to the hit point that the sampler is run
\* with: the first vertex the nearest, or the others equally nearer
Dists ==
    UNION { { [i \in 1..n |-> IF i = 1 THEN 1 ELSE 2],
              [i \in 1..n |-> IF i = 1 THEN 2 ELSE 1] } : n \in FaceSizes }

\* header_text_set(None), status_text_set(None): no text
NoText == <<>>

\* no brush colour written yet
NoColor == <<>>

\* what pick_vertex_color returns: nothing, an exception, or a colour element
NoPick == [kind |-> "none", color |-> <<>>]

PickRaises == [kind |-> "raise", color |-> <<>>]

Picked(c) == [kind |-> "color", color |-> c]

\* the sampler's resources as one record
Res ==
    [timer |-> sample_vertex_color_timer, prev |-> prev_show_brush, timers |-> wm_timers,
     show |-> show_brush, cursor |-> cursor, header |-> header_text,
     status |-> status_text, log |-> info_log, brush |-> brush_color]

SetRes(r) ==
    /\ sample_vertex_color_timer' = r.timer
    /\ prev_show_brush' = r.prev
    /\ wm_timers' = r.timers
    /\ show_brush' = r.show
    /\ cursor' = r.cursor
    /\ header_text' = r.header
    /\ status_text' = r.status
    /\ info_log' = r.log
    /\ brush_color' = r.brush

\* variant: the timer is left armed
sample_vertex_color_end_keeps_timer(r) ==
    [r EXCEPT !.cursor = "DEFAULT",
              !.header = NoText,
              !.show = r.prev,
              !.status = NoText]

\* sample_vertex_color_end: every step is guarded, the context is the one the
\* host passes to modal / invoke
sample_vertex_color_end(r) ==
    [r EXCEPT !.cursor = "DEFAULT",
              !.header = NoText,
              !.timers = IF r.timer # None THEN r.timers \ {r.timer} ELSE r.timers,
              !.timer = None,
              !.show = r.prev,
              !.status = NoText]

\* the host's linear -> display (sRGB) view of a channel value: 0 and 1 are
\* fixed points, every other value changes
to_srgb(v) == IF v \in {0, 1} THEN v ELSE v + 10

color_srgb(c) == <<to_srgb(c[1]), to_srgb(c[2]), to_srgb(c[3]), c[4]>>

\* float("inf") (line 623): larger than every distance
Inf == 1000

\* the loop of lines 627-632 from position i on, with the running minimum and
\* the position that holds it (positions are 1-based here; 0 stands for the
\* initial -1)
RECURSIVE closest_scan(_, _, _, _)
closest_scan(dists, i, min_dist, closest_face_vertex_index) ==
    IF i > Len(dists)
    THEN closest_face_vertex_index
    ELSE IF dists[i] < min_dist
    THEN closest_scan(dists, i + 1, dists[i], i)
    ELSE closest_scan(dists, i + 1, min_dist, closest_face_vertex_index)

\* variant: among equal distances the last position wins
closest_index_last_minimum(dists) ==
    LET n == Len(dists)
        rev == [k \in 1..n |-> dists[n + 1 - k]]
    IN n + 1 - closest_scan(rev, 1, Inf, 0)

\* position in the face of the vertex the loop of lines 623-632 selects
closest_index(dists) == closest_scan(dists, 1, Inf, 0)

\* pick_vertex_color_from_mouse_coord / pick_vertex_color_from_rayhit.  ray is
\* the host's ray cast: hit_ok, the index of the hit face (1-based here) and the
\* distance of each of its vertices to the hit location.
pick_vertex_color(m, color_attr, ray) ==
    IF ~ray.hit_ok
    THEN NoPick
    ELSE IF ray.face_index \notin 1..Len(m.polygons)
    THEN PickRaises
    ELSE LET face == m.polygons[ray.face_index]
             vert_colors == color_attr.data
         IN IF Len(face.vertices) = 0
            THEN NoPick
            ELSE IF color_attr.domain = "POINT"
            THEN IF Len(vert_colors) # m.nverts
                 THEN PickRaises
                 ELSE Picked(vert_colors[face.vertices[closest_index(ray.dists)]])
            ELSE IF color_attr.domain = "CORNER"
            THEN IF Len(vert_colors) # m.nloops
                 THEN PickRaises
                 ELSE Picked(vert_colors[face.loop_indices[closest_index(ray.dists)]])
            ELSE PickRaises

\* pick_vertex_color_from_mouse_coord called on its own (lines 600-611): the
\* ray cast of the host and what the function returns for it
Pick(ray) ==
    LET res == pick_vertex_color(mesh, Lookup(layers, active), ray)
    IN /\ last' = Outcome("pick", res.kind, None, None, ray, None, res.color)
       /\ UNCHANGED <<maskVars, samplerVars>>

\* the report string of a sampled colour: it shows the linear and the display colour
report_str(c) == <<"Color", c, color_srgb(c)>>

NotUnderCursor == <<"Active object not under mouse cursor">>

\* variant: the brush gets the linear colour instead of the display colour
do_sample_linear_brush(r, event, col) ==
    IF col.kind = "none"
    THEN [r EXCEPT !.header = NotUnderCursor]
    ELSE [r EXCEPT !.log = IF event.type = "LEFTMOUSE"
                           THEN Append(r.log, report_str(col.color)) ELSE r.log,
                   !.header = report_str(col.color),
                   !.brush = IF event.type = "LEFTMOUSE" /\ ~event.ctrl
                             THEN <<col.color[1], col.color[2], col.color[3]>>
                             ELSE r.brush]

\* do_sample when pick_vertex_color returned col without raising
do_sample(r, event, col) ==
    IF col.kind = "none"
    THEN [r EXCEPT !.header = NotUnderCursor]
    ELSE [r EXCEPT !.log = IF event.type = "LEFTMOUSE"
                           THEN Append(r.log, report_str(col.color)) ELSE r.log,
                   !.header = report_str(col.color),
                   !.brush = IF event.type = "LEFTMOUSE" /\ ~event.ctrl
                             THEN <<color_srgb(col.color)[1], color_srgb(col.color)[2],
                                    color_srgb(col.color)[3]>>
                             ELSE r.brush]

NavigationTypes == {"MIDDLEMOUSE", "WHEELUPMOUSE", "WHEELDOWNMOUSE"}

ExitTypes == {"RIGHTMOUSE", "ESC"}

\* TRUE when modal takes its sampling branch (line 495)
modal_samples(h, event) ==
    \/ h.first_modal
    \/ event.type = "TIMER"
    \/ (event.type = "LEFTMOUSE" /\ event.value = "PRESS")

\* variant: an exception of do_sample goes on without the cleanup
modal_raises_without_cleanup(r, h, event, col) ==
    IF modal_samples(h, event)
    THEN IF col.kind = "raise"
         THEN [r |-> r, h |-> [h EXCEPT !.first_modal = FALSE],
               ret |-> "RAISED", sampled |-> TRUE]
         ELSE IF event.type = "LEFTMOUSE" /\ ~event.ctrl
         THEN [r |-> sample_vertex_color_end(do_sample(r, event, col)),
               h |-> [h EXCEPT !.first_modal = FALSE], ret |-> "CANCELLED", sampled |-> TRUE]
         ELSE [r |-> do_sample(r, event, col), h |-> [h EXCEPT !.first_modal = FALSE],
               ret |-> "RUNNING_MODAL", sampled |-> TRUE]
    ELSE IF event.type \in NavigationTypes
    THEN [r |-> r, h |-> h, ret |-> "PASS_THROUGH", sampled |-> FALSE]
    ELSE IF event.type \in ExitTypes
    THEN [r |-> sample_vertex_color_end(r), h |-> h, ret |-> "CANCELLED", sampled |-> FALSE]
    ELSE [r |-> r, h |-> h, ret |-> "RUNNING_MODAL", sampled |-> FALSE]

\* variant: a left press ends the loop whether ctrl is held or not
modal_ends_on_ctrl_click(r, h, event, col) ==
    IF modal_samples(h, event)
    THEN IF col.kind = "raise"
         THEN [r |-> sample_vertex_color_end(r), h |-> [h EXCEPT !.first_modal = FALSE],
               ret |-> "RAISED", sampled |-> TRUE]
         ELSE IF event.type = "LEFTMOUSE"
         THEN [r |-> sample_vertex_color_end(do_sample(r, event, col)),
               h |-> [h EXCEPT !.first_modal = FALSE], ret |-> "CANCELLED", sampled |-> TRUE]
         ELSE [r |-> do_sample(r, event, col), h |-> [h EXCEPT !.first_modal = FALSE],
               ret |-> "RUNNING_MODAL", sampled |-> TRUE]
    ELSE IF event.type \in NavigationTypes
    THEN [r |-> r, h |-> h, ret |-> "PASS_THROUGH", sampled |-> FALSE]
    ELSE IF event.type \in ExitTypes
    THEN [r |-> sample_vertex_color_end(r), h |-> h, ret |-> "CANCELLED", sampled |-> FALSE]
    ELSE [r |-> r, h |-> h, ret |-> "RUNNING_MODAL", sampled |-> FALSE]

\* modal(self, context, event) of the operator instance h: the resources, the
\* instance and the return value afterwards ("RAISED" when the exception of
\* do_sample is re-raised after the cleanup)
modal(r, h, event, col) ==
    IF modal_samples(h, event)
    THEN IF col.kind = "raise"
         THEN [r |-> sample_vertex_color_end(r), h |-> [h EXCEPT !.first_modal = FALSE],
               ret |-> "RAISED", sampled |-> TRUE]
         ELSE IF event.type = "LEFTMOUSE" /\ ~event.ctrl
         THEN [r |-> sample_vertex_color_end(do_sample(r, event, col)),
               h |-> [h EXCEPT !.first_modal = FALSE], ret |-> "CANCELLED", sampled |-> TRUE]
         ELSE [r |-> do_sample(r, event, col), h |-> [h EXCEPT !.first_modal = FALSE],
               ret |-> "RUNNING_MODAL", sampled |-> TRUE]
    ELSE IF event.type \in NavigationTypes
    THEN [r |-> r, h |-> h, ret |-> "PASS_THROUGH", sampled |-> FALSE]
    ELSE IF event.type \in ExitTypes
    THEN [r |-> sample_vertex_color_end(r), h |-> h, ret |-> "CANCELLED", sampled |-> FALSE]
    ELSE [r |-> r, h |-> h, ret |-> "RUNNING_MODAL", sampled |-> FALSE]

\* the host hands an event to the modal handlers, newest first: a handler that
\* returns PASS_THROUGH lets the event go on to the next one, a handler that
\* ends (CANCELLED, or an exception) is removed, any other return consumes the event
RECURSIVE deliver(_, _, _, _)
deliver(r, hs, event, col) ==
    IF hs = <<>>
    THEN [r |-> r, hs |-> <<>>]
    ELSE LET m == modal(r, hs[1], event, col)
         IN IF m.ret = "PASS_THROUGH"
            THEN LET rest == deliver(m.r, Tail(hs), event, col)
                 IN [r |-> rest.r, hs |-> <<m.h>> \o rest.hs]
            ELSE IF m.ret \in {"CANCELLED", "RAISED"}
            THEN [r |-> m.r, hs |-> Tail(hs)]
            ELSE [r |-> m.r, hs |-> <<m.h>> \o Tail(hs)]

\* an event reaches the sampler: the outcome recorded is that of the newest loop
ModalEvent(event, ray) ==
    LET col == pick_vertex_color(mesh, Lookup(layers, active), ray)
        m == modal(Res, handlers[1], event, col)
        d == deliver(Res, handlers, event, col)
    IN /\ handlers # <<>>
       /\ Len(d.r.log) <= MaxLog
       /\ SetRes(d.r)
       /\ handlers' = d.hs
       /\ UNCHANGED shown_on_entry
       /\ last' = Outcome("modal", m.ret, None,
                          IF ~m.sampled THEN "nosample"
                          ELSE IF col.kind = "raise" THEN "fault"
                          ELSE IF col.kind = "none" THEN "nohit" ELSE "hit",
                          <<event.type, event.value, event.ctrl>>,
                          <<event.type, event.value, event.ctrl>>, None)
       /\ UNCHANGED maskVars

TimerIds == <<"timer1", "timer2", "timer3", "timer4">>

\* event_timer_add: a timer handle the window manager has not armed yet
new_timer(timers) ==
    TimerIds[CHOOSE i \in 1..Len(TimerIds) :
                /\ TimerIds[i] \notin timers
                /\ \A j \in 1..(i - 1) : TimerIds[j] \in timers]

\* invoke(self, context, event), all host calls succeeding
invoke(r) ==
    [r EXCEPT !.prev = r.show,
              !.show = FALSE,
              !.timers = (IF r.timer # None THEN r.timers \ {r.timer} ELSE r.timers)
                         \cup {new_timer(IF r.timer # None THEN r.timers \ {r.timer}
                                         ELSE r.timers)},
              !.timer = new_timer(IF r.timer # None THEN r.timers \ {r.timer} ELSE r.timers),
              !.cursor = "EYEDROPPER",
              !.status = <<"Mouse-over: Show color in header. ...">>]

Invoke ==
    /\ Len(handlers) < MaxHandlers
    /\ SetRes(invoke(Res))
    /\ handlers' = <<[first_modal |-> TRUE]>> \o handlers
    /\ shown_on_entry' = IF handlers = <<>> THEN show_brush ELSE shown_on_entry
    /\ last' = Outcome("invoke", "RUNNING_MODAL", None, None, None, None, None)
    /\ UNCHANGED maskVars

\* the host calls of invoke that may raise: the overlay access (line 529),
\* modal_handler_add (537), cursor_modal_set (539), status_text_set (543).
\* The timer calls are taken not to raise.
EntryFaults == {"overlay", "handler", "cursor", "status"}

\* the resources at the moment the call p of invoke raises
invoke_before(r, p) ==
    IF p = "overlay"
    THEN r
    ELSE IF p \in {"handler", "cursor"}
    THEN [invoke(r) EXCEPT !.cursor = r.cursor, !.status = r.status]
    ELSE [invoke(r) EXCEPT !.status = r.status]

\* invoke when its call p raises: the except clause runs the cleanup (line 545)
\* before the exception goes on.  An overlay access that raised in invoke raises
\* in the cleanup too (line 471), where it is swallowed.
invoke_fails(r, p) ==
    IF p = "overlay"
    THEN [sample_vertex_color_end(r) EXCEPT !.show = r.show]
    ELSE sample_vertex_color_end(invoke_before(r, p))

\* invoke raising at call p.  When the handler was added before the failing
\* call, the host is left with a handler of an operator that did not start:
\* whether it still runs is not defined, so both outcomes (kept) are taken.
InvokeFails(p, kept) ==
    /\ kept => (p \in {"cursor", "status"} /\ Len(handlers) < MaxHandlers)
    /\ SetRes(invoke_fails(Res, p))
    /\ handlers' = IF kept THEN <<[first_modal |-> TRUE]>> \o handlers ELSE handlers
    /\ shown_on_entry' = IF handlers = <<>> THEN show_brush ELSE shown_on_entry
    /\ last' = Outcome("invoke", "RAISED", None, "fault", p, None, None)
    /\ UNCHANGED maskVars

----------------------------------------------------------------------------
(* Initial layer collections *)

nX == <<"X">>

nY == <<"Y">>

\* a mesh of two vertices joined by an edge: no polygon, so no loop
EdgeMesh == [nverts |-> 2, nloops |-> 0, polygons |-> <<>>]

\* the first element of the layer X starts with this colour
BaseColor == <<2, 3, 4, 5>>

\* the first element of another layer starts with this colour
OtherColor == <<4, 5, 2, 3>>

\* element i of a layer whose first element has colour c: the elements of a
\* layer differ in every channel
ShiftColor(c, i) ==
    <<c[1] + 10 * (i - 1), c[2] + 10 * (i - 1), c[3] + 10 * (i - 1), c[4] + 10 * (i - 1)>>

Layer(m, name, domain, c) ==
    [name |-> name, domain |-> domain,
     data |-> [i \in 1..ElemCount(m, domain) |-> ShiftColor(c, i)]]

\* collections without any mask-named layer
CleanCollections(m) ==
    { <<Layer(m, nX, "POINT", BaseColor)>> }
    \cup { <<Layer(m, nX, "POINT", BaseColor), Layer(m, nY, "POINT", OtherColor)>> }

\* a collection with an orphan mask: its base Y is missing
OrphanCollections(m) ==
    { <<Layer(m, nX, "POINT", BaseColor), Layer(m, MaskName(nY, <<"R", "B">>), "POINT", OtherColor)>> }

\* collections that already hold mask-named layers: a mask of X of any code
\* whose colours are not those of X, an orphan mask, a mask of X in another
\* domain than X
MaskedCollections(m) ==
    { <<Layer(m, nX, "POINT", BaseColor), Layer(m, MaskName(nX, c), "POINT", OtherColor)>> :
        c \in ValidCodes }
    \cup OrphanCollections(m)
    \cup { <<Layer(m, nX, "POINT", BaseColor), Layer(m, MaskName(nX, <<"A">>), "CORNER", OtherColor)>> }

SamplerIdle ==
    /\ handlers = <<>>
    /\ sample_vertex_color_timer = None
    /\ prev_show_brush = TRUE
    /\ wm_timers = {}
    /\ show_brush = TRUE
    /\ cursor = "DEFAULT"
    /\ header_text = NoText
    /\ status_text = NoText
    /\ info_log = <<>>
    /\ brush_color = NoColor
    /\ shown_on_entry = show_brush

InitWith(m, collections) ==
    /\ mesh = m
    /\ layers \in collections
    /\ active \in Names(layers)
    /\ edits = 0
    /\ last = NoOutcome
    /\ pre = <<>>
    /\ channels_prop = {}

Init ==
    /\ InitWith(EdgeMesh, CleanCollections(EdgeMesh) \cup MaskedCollections(EdgeMesh))
    /\ SamplerIdle

\* refused swizzle codes: wrong length, a symbol outside R, G, B, A, 0, 1
BadSwizzleCodes ==
    { <<>>, <<"R", "G", "B">>, <<"R", "G", "B", "A", "A">>, <<"R", "G", "B", "x">>,
      <<"x", "0", "1", "A">>, <<"r", "g", "x", "a">> }

\* the codes the swizzle command is run with beside the masks: the default
\* code, the same in lower case, a code too short and one with a foreign symbol
FewSwizzleCodes ==
    { <<"R", "G", "B", "A">>, <<"r", "g", "b", "a">>, <<"R", "G", "B">>, <<"r", "g", "x", "a">> }

\* every valid code, a lower-case one, and the refused ones
AllSwizzleCodes ==
    [1..4 -> SwizzleSymbols] \cup { <<"b", "g", "r", "a">> } \cup BadSwizzleCodes

\* the values the `channels` property can hold when execute reads it: every
\* assignment is followed by the update callback (line 156)
Selections == {channels_prop_update(FALSE, S) : S \in SUBSET Channels}

\* create-mask, apply-mask and the choice of the active layer
Next ==
    \/ \E S \in Selections : CreateMask(S)
    \/ ApplyMask
    \/ \E n \in Names(layers) : SelectLayer(n)

Spec == Init /\ [][Next]_vars

\* the mask commands while the layers are being painted
EditNext ==
    \/ Next
    \/ \E i \in 1..mesh.nverts, c \in PaintColors : Paint(i, c)

EditSpec == Init /\ [][EditNext]_vars

\* the mask commands alone, from collections that hold no mask-named layer
NoMaskInit ==
    /\ InitWith(EdgeMesh, CleanCollections(EdgeMesh))
    /\ SamplerIdle

NoMaskSpec == NoMaskInit /\ [][Next]_vars

\* the three commands that can end in a user-input error
\* the first element of a third layer starts with this colour
ThirdColor == <<6, 7, 8, 9>>

\* the layer X with two masks whose codes share no channel, in either order;
\* the three layers differ in every channel of every element
TwoMaskCollections(m) ==
    { <<Layer(m, nX, "POINT", BaseColor), Layer(m, MaskName(nX, c1), "POINT", OtherColor),
        Layer(m, MaskName(nX, c2), "POINT", ThirdColor)>> :
        <<c1, c2>> \in {p \in ValidCodes \X ValidCodes : Range(p[1]) \cap Range(p[2]) = {}} }

ApplyInit ==
    /\ InitWith(EdgeMesh, TwoMaskCollections(EdgeMesh))
    /\ SamplerIdle

\* apply-mask and the choice of the active layer
ApplyNext ==
    \/ ApplyMask
    \/ \E n \in Names(layers) : SelectLayer(n)

ApplySpec == ApplyInit /\ [][ApplyNext]_vars

\* the mask commands together with edits of the channel selection
SelectionNext ==
    \/ Next
    \/ \E S \in SUBSET Channels : AssignChannels(S)

SelectionSpec == NoMaskInit /\ [][SelectionNext]_vars

CommandNext ==
    \/ Next
    \/ \E code \in FewSwizzleCodes : Swizzle(code)

CommandInit ==
    /\ InitWith(EdgeMesh, { <<Layer(EdgeMesh, nX, "POINT", BaseColor)>> }
                           \cup OrphanCollections(EdgeMesh))
    /\ SamplerIdle

CommandSpec == CommandInit /\ [][CommandNext]_vars

\* element i of a layer whose elements differ in every channel
ElemColor(i) == <<i + 1, i + 2, i + 3, i + 4>>

DistinctLayer(m, name, domain) ==
    [name |-> name, domain |-> domain,
     data |-> [i \in 1..ElemCount(m, domain) |-> ElemColor(i)]]

SwizzleInit ==
    /\ InitWith(EdgeMesh, { <<DistinctLayer(EdgeMesh, nX, "POINT")>>,
                            <<DistinctLayer(EdgeMesh, nX, "POINT"),
                              Layer(EdgeMesh, nY, "POINT", OtherColor)>> })
    /\ SamplerIdle

\* the swizzle command run once, with every code, on the layer active at the start
SwizzleNext ==
    /\ last.op = "none"
    /\ \E code \in AllSwizzleCodes : Swizzle(code)

SwizzleSpec == SwizzleInit /\ [][SwizzleNext]_vars

----------------------------------------------------------------------------
(* The sampler on a mesh with one triangle *)

\* four vertices, the last three of them the corners of one triangle
TriMesh ==
    [nverts |-> 4, nloops |-> 3,
     polygons |-> << [vertices |-> <<2, 3, 4>>, loop_indices |-> <<1, 2, 3>>] >>]

\* a POINT layer with one colour less than the mesh has vertices
ShortLayer(m, name) ==
    [name |-> name, domain |-> "POINT",
     data |-> [i \in 1..(m.nverts - 1) |-> ElemColor(i)]]

\* a layer per vertex, a layer per loop, a layer of the wrong length and a
\* layer of a domain the sampler does not know
SamplerCollections(m) ==
    { <<DistinctLayer(m, nX, "POINT")>>, <<DistinctLayer(m, nX, "CORNER")>>,
      <<ShortLayer(m, nX)>>, <<DistinctLayer(m, nX, "FACE")>> }

SamplerInit ==
    /\ InitWith(TriMesh, SamplerCollections(TriMesh))
    /\ handlers = <<>>
    /\ sample_vertex_color_timer = None
    /\ prev_show_brush = TRUE
    /\ wm_timers = {}
    /\ show_brush \in BOOLEAN
    /\ cursor = "DEFAULT"
    /\ header_text = NoText
    /\ status_text = NoText
    /\ info_log = <<>>
    /\ brush_color = NoColor
    /\ shown_on_entry = show_brush

\* the events the host delivers: value and ctrl are read for LEFTMOUSE only
Events ==
    [type : {"LEFTMOUSE"}, value : {"PRESS", "RELEASE"}, ctrl : BOOLEAN]
    \cup [type : {"TIMER", "MOUSEMOVE"} \cup NavigationTypes \cup ExitTypes,
          value : {"PRESS"}, ctrl : {FALSE}]

\* the ray casts of the host: no hit, a hit on a face with the distances of
\* its vertices, or a hit whose face index is not a polygon of ob.data
RaysOver(m, D) ==
    { [hit_ok |-> FALSE, face_index |-> 0, dists |-> <<>>] }
    \cup UNION { [hit_ok : {TRUE}, face_index : {f},
                  dists : {d \in D : Len(d) = Len(m.polygons[f].vertices)}] :
                 f \in 1..Len(m.polygons) }
    \cup { [hit_ok |-> TRUE, face_index |-> Len(m.polygons) + 1, dists |-> <<>>] }

Rays(m) == RaysOver(m, Dists)

\* the ray casts an event can lead to: do_sample casts a ray only in a loop
\* that the event reaches and that takes its sampling branch
CastRays(event) ==
    IF \E i \in 1..Len(handlers) :
          /\ modal_samples(handlers[i], event)
          /\ \A j \in 1..(i - 1) : /\ ~modal_samples(handlers[j], event)
                                    /\ event.type \in NavigationTypes
    THEN Rays(mesh)
    ELSE { [hit_ok |-> FALSE, face_index |-> 0, dists |-> <<>>] }

\* the context sample_vertex_color_end gets when it is called without one
\* (line 66): the default bound when the module was loaded (line 455), the
\* host's full context when the file was run as a script, the restricted
\* context of an add-on being enabled otherwise
DefaultContexts == {"full", "restricted"}

\* sample_vertex_color_end on a context that has a window manager only: the
\* window, area, tool settings and workspace steps raise and are swallowed
sample_vertex_color_end_restricted(r) ==
    [r EXCEPT !.timers = IF r.timer # None THEN r.timers \ {r.timer} ELSE r.timers,
              !.timer = None]

\* unregister (lines 65-72) while no loop of the sampler is installed: the
\* cleanup, then the menu entry and the classes are removed
Unregister(ctx) ==
    /\ handlers = <<>>
    /\ SetRes(IF ctx = "full"
              THEN sample_vertex_color_end(Res)
              ELSE sample_vertex_color_end_restricted(Res))
    /\ last' = Outcome("unregister", None, None, ctx, None, None, None)
    /\ UNCHANGED <<maskVars, handlers, shown_on_entry>>

\* the sampler when every entry succeeds
LoopNext ==
    \/ Invoke
    \/ \E event \in Events : \E ray \in CastRays(event) : ModalEvent(event, ray)

LoopSpec == SamplerInit /\ [][LoopNext]_vars

\* the sampler with entries that fail part-way
SamplerNext ==
    \/ LoopNext
    \/ \E p \in EntryFaults, kept \in BOOLEAN : InvokeFails(p, kept)

SamplerSpec == SamplerInit /\ [][SamplerNext]_vars

\* the sampler and the removal of the add-on while the sampler is idle
UnregisterNext ==
    \/ LoopNext
    \/ \E ctx \in DefaultContexts : Unregister(ctx)

UnregisterSpec == SamplerInit /\ [][UnregisterNext]_vars

----------------------------------------------------------------------------
(* The channel-string and mask-name functions on their own (lines 335-381) *)

\* names are at most MaxName characters long
MaxName == 6

\* the characters of the names: a letter of a base name, the underscore, and
\* the four channel letters
NameChars == {"X", "_", "R", "G", "B", "A"}

AllNames == UNION { [1..n -> NameChars] : n \in 0..MaxName }

\* make_channel_str(S), and make_channel_str of the set make_channel_set
\* derives from it, computed once in a run for a selection S
MakeChannelStr ==
    /\ last.op = "none"
    /\ \E S \in SUBSET Channels :
         last' = Outcome("make_channel_str", None, None, None, S, None,
                         << make_channel_str(S),
                            make_channel_str(make_channel_set(make_channel_str(S))) >>)
    /\ UNCHANGED <<maskVars, samplerVars>>

\* attr_name_is_mask(n) and get_mask_name_parts(n), computed once in a run for
\* a name n
ParseName ==
    /\ last.op = "none"
    /\ \E n \in AllNames :
         last' = Outcome("get_mask_name_parts",
                         IF attr_name_is_mask(n) THEN "mask" ELSE "plain",
                         None, None, n, None, get_mask_name_parts(n))
    /\ UNCHANGED <<maskVars, samplerVars>>

NamingInit ==
    /\ InitWith(EdgeMesh, { <<Layer(EdgeMesh, nX, "POINT", BaseColor)>> })
    /\ SamplerIdle

\* each function applied once, to every input
NamingNext ==
    \/ MakeChannelStr
    \/ ParseName

NamingSpec == NamingInit /\ [][NamingNext]_vars

----------------------------------------------------------------------------
(* The colour pick on a mesh with two triangles and a face without vertices *)

\* four vertices, two triangles on an edge, and a degenerate face: in both
\* triangles the position in the face, the vertex index and the loop index
\* of a corner are three different numbers
FanMesh ==
    [nverts |-> 4, nloops |-> 6,
     polygons |-> << [vertices |-> <<3, 1, 4>>, loop_indices |-> <<1, 2, 3>>],
                     [vertices |-> <<4, 1, 2>>, loop_indices |-> <<4, 5, 6>>],
                     [vertices |-> <<>>, loop_indices |-> <<>>] >>]

\* the distances of a face's vertices to the hit point: three values, so that
\* the minimum can be unique or tied among vertices that are not the farthest
PickDists == UNION { [1..n -> {1, 2, 3}] : n \in FaceSizes }

\* a CORNER layer with one colour less than the mesh has loops
ShortCornerLayer(m, name) ==
    [name |-> name, domain |-> "CORNER",
     data |-> [i \in 1..(m.nloops - 1) |-> ElemColor(i)]]

PickInit ==
    /\ InitWith(FanMesh, SamplerCollections(FanMesh) \cup { <<ShortCornerLayer(FanMesh, nX)>> })
    /\ SamplerIdle

PickNext == \E ray \in RaysOver(mesh, PickDists) : Pick(ray)

PickSpec == PickInit /\ [][PickNext]_vars

----------------------------------------------------------------------------
(* Reference definitions the properties are stated with.  They restate the
   naming scheme and the two copy tables channel by channel, without the
   operators of the commands. *)

Letter(k) == <<"R", "G", "B", "A">>[k]

\* the canonical code of a channel selection: alpha wins over R, G and B
Canon(S) ==
    IF "A" \in S THEN <<"A">> ELSE SelectSeq(<<"R", "G", "B">>, LAMBDA x : x \in S)

\* the ways a name reads as <base>__<code>: at most one
MaskSplits(n) ==
    { <<SubSeq(n, 1, Len(n) - Len(c) - 2), c>> :
        c \in {d \in ValidCodes : /\ Len(n) >= Len(d) + 2
                                  /\ n = MaskName(SubSeq(n, 1, Len(n) - Len(d) - 2), d)} }

IsMaskNamed(n) == MaskSplits(n) # {}

BaseOf(n) == (CHOOSE p \in MaskSplits(n) : TRUE)[1]

CodeOf(n) == (CHOOSE p \in MaskSplits(n) : TRUE)[2]

\* the layer create-mask is aimed at when the layer `act` is active
TargetBase(act) == IF IsMaskNamed(act) THEN BaseOf(act) ELSE act

\* the masks of base b in ls whose code shares a channel with `code`
ConflictingMasks(ls, b, code) ==
    {n \in Names(ls) : \E c \in ValidCodes : /\ n = MaskName(b, c)
                                             /\ Range(c) \cap Range(code) # {}}

MasksOf(ls, b) == {n \in Names(ls) : \E c \in ValidCodes : n = MaskName(b, c)}

\* channel k of a mask element made from base colour c
MaskChan(c, code, k) ==
    IF k = 4 THEN 1
    ELSE IF code = <<"A">> THEN c[4]
    ELSE IF Letter(k) \in Range(code) THEN c[k] ELSE 0

\* channel k of a base element b after the mask element m is applied
BaseChan(b, m, code, k) ==
    IF Letter(k) \in Range(code)
    THEN (IF k = 4 THEN m[1] ELSE m[k])
    ELSE b[k]

\* the existing layer create-mask is aimed at, if there is one
CreateTargets == {TargetBase(active)} \cap Names(layers)

\* a create-mask step with a non-empty selection
CreateStep ==
    /\ last'.op = "create"
    /\ last'.arg # {}

----------------------------------------------------------------------------
(* Properties of create-mask and apply-mask *)

\* C1: create-mask with a valid selection on a base layer that has no mask,
\* followed at once by apply-mask on the mask it made, succeeds, leaves the
\* base layer with the colours it had before the mask was made (the selected
\* channels restored, the others untouched), leaves every other layer as it
\* was, and leaves no mask of that base in the collection.
C1_CreateThenApplyRestores ==
    (/\ last.op = "apply"
     /\ pre # <<>>
     /\ IsMaskNamed(last.about)
     /\ BaseOf(last.about) \in Names(pre)
     /\ MasksOf(pre, BaseOf(last.about)) = {})
        =>  LET b == BaseOf(last.about)
            IN /\ last.ret = "FINISHED"
               /\ b \in Names(layers)
               /\ \A i \in 1..Len(Lookup(pre, b).data) : \A k \in 1..4 :
                     Lookup(layers, b).data[i][k] = Lookup(pre, b).data[i][k]
               /\ Len(Lookup(layers, b).data) = Len(Lookup(pre, b).data)
               /\ MasksOf(layers, b) = {}
               /\ last.about \notin Names(layers)
               /\ layers = pre

C1_Witness ==
    /\ last.op = "apply"
    /\ last.branch = "applied"
    /\ pre # <<>>
    /\ last.about = MaskName(nX, <<"A">>)
    /\ MasksOf(pre, nX) = {}
    /\ Lookup(layers, nX).data = Lookup(pre, nX).data
    /\ MasksOf(layers, nX) = {}

\* C2: when the active layer is a mask <base>__<code>, <base> exists and both
\* layers have as many elements, apply-mask sets in every element of the base
\* exactly the channels of <code> to the mask's channels (code A: base alpha
\* from mask red), leaves the other channels of the base and every other layer
\* as they were, and removes the mask layer.
C2_ApplyCopiesAndRemoves ==
    [][(/\ last'.op = "apply"
        /\ IsMaskNamed(active)
        /\ BaseOf(active) \in Names(layers)
        /\ Len(Lookup(layers, BaseOf(active)).data) = Len(Lookup(layers, active).data))
       => LET b == BaseOf(active)
              code == CodeOf(active)
          IN /\ last'.ret = "FINISHED"
             /\ Names(layers') = Names(layers) \ {active}
             /\ Len(layers') = Len(layers) - 1
             /\ Len(Lookup(layers', b).data) = Len(Lookup(layers, b).data)
             /\ Lookup(layers', b).domain = Lookup(layers, b).domain
             /\ \A i \in 1..Len(Lookup(layers, b).data) : \A k \in 1..4 :
                   Lookup(layers', b).data[i][k] =
                       BaseChan(Lookup(layers, b).data[i], Lookup(layers, active).data[i], code, k)
             /\ \A n \in Names(layers) \ {b, active} :
                   Lookup(layers', n) = Lookup(layers, n)]_vars

C2_Witness ==
    /\ last.op = "apply"
    /\ last.branch = "applied"
    /\ last.about = MaskName(nX, <<"G">>)
    /\ nX \in Names(layers)
    /\ Lookup(layers, nX).data[2] = <<12, 15, 14, 15>>
    /\ MaskName(nX, <<"G">>) \notin Names(layers)

\* C3: create-mask with a non-empty selection and no conflicting mask adds
\* exactly one layer <base>__<code>, <base> being the active layer or the
\* existing recorded base of an active mask; each element of the new layer is
\* the copy-to-mask value of the same element of <base>; no existing layer
\* changes; the new layer becomes the active one.
C3_CreateAddsMask ==
    [][\A b \in CreateTargets :
        (CreateStep /\ ConflictingMasks(layers, b, Canon(last'.arg)) = {})
        => LET code == Canon(last'.arg)
               name == MaskName(b, code)
           IN /\ last'.ret = "FINISHED"
              /\ name \notin Names(layers)
              /\ Len(layers') = Len(layers) + 1
              /\ Names(layers') = Names(layers) \cup {name}
              /\ \A n \in Names(layers) : Lookup(layers', n) = Lookup(layers, n)
              /\ Lookup(layers', name).domain = Lookup(layers, b).domain
              /\ Len(Lookup(layers', name).data) = Len(Lookup(layers, b).data)
              /\ \A i \in 1..Len(Lookup(layers, b).data) : \A k \in 1..4 :
                    Lookup(layers', name).data[i][k] = MaskChan(Lookup(layers, b).data[i], code, k)
              /\ active' = name]_vars

C3_Witness ==
    /\ last.op = "create"
    /\ last.branch = "created"
    /\ last.arg = {"R", "B"}
    /\ active = MaskName(nX, <<"R", "B">>)
    /\ active \in Names(layers)
    /\ Lookup(layers, nX).data[2] = <<12, 13, 14, 15>>
    /\ Lookup(layers, active).data[2] = <<12, 0, 14, 1>>

\* C4: from a collection without mask-named layers, whatever create-mask and
\* apply-mask commands run, no two mask layers of one base have codes that
\* share a channel.
C4_MasksOfABaseAreDisjoint ==
    \A n1 \in Names(layers), n2 \in Names(layers) :
        (n1 # n2 /\ IsMaskNamed(n1) /\ IsMaskNamed(n2) /\ BaseOf(n1) = BaseOf(n2))
        => Range(CodeOf(n1)) \cap Range(CodeOf(n2)) = {}

C4_Witness ==
    /\ MaskName(nX, <<"R">>) \in Names(layers)
    /\ MaskName(nX, <<"G", "B">>) \in Names(layers)
    /\ last.op = "create"
    /\ last.branch = "created"

\* C5: when create-mask finds a conflicting mask it creates no layer, changes
\* no layer's data, makes a conflicting mask the active layer, and finishes
\* with a warning.
C5_ConflictSelectsMask ==
    [][\A b \in CreateTargets :
        (CreateStep /\ ConflictingMasks(layers, b, Canon(last'.arg)) # {})
        => /\ layers' = layers
           /\ active' \in ConflictingMasks(layers, b, Canon(last'.arg))
           /\ last'.ret = "FINISHED"
           /\ last'.report = "WARNING"]_vars

C5_Witness ==
    /\ last.op = "create"
    /\ last.branch = "conflict"
    /\ last.ret = "FINISHED"
    /\ last.report = "WARNING"
    /\ active = MaskName(nX, <<"G">>)
    /\ last.arg = {"R", "G"}

\* C6: create-mask reports a conflict exactly when a mask of the target base
\* has a code that shares a channel with the canonical code of the request;
\* the report names a shared channel and that mask.
C6_ConflictIffSharedChannel ==
    [][\A b \in CreateTargets :
        CreateStep
        => /\ (last'.report = "WARNING") <=>
                  (ConflictingMasks(layers, b, Canon(last'.arg)) # {})
           /\ (last'.report = "WARNING") =>
                  /\ last'.about[2] \in ConflictingMasks(layers, b, Canon(last'.arg))
                  /\ last'.about[1] \in Range(Canon(last'.arg))
                                          \cap Range(CodeOf(last'.about[2]))]_vars

C6_Witness ==
    /\ last.op = "create"
    /\ last.arg = {"G"}
    /\ last.report = "WARNING"
    /\ last.about = <<"G", MaskName(nX, <<"R", "G">>)>>
    /\ MaskName(nX, <<"B">>) \notin Names(layers)

----------------------------------------------------------------------------
(* Properties of the input errors and of swizzle *)

\* a code of exactly 4 symbols from R, G, B, A, 0, 1 in either case
WellFormedCode(code) ==
    /\ Len(code) = 4
    /\ \A i \in 1..4 : code[i] \in {"R", "G", "B", "A", "0", "1", "r", "g", "b", "a"}

\* the step ended in a user-input error and changed nothing
AbortedUnchanged ==
    /\ last'.ret = "CANCELLED"
    /\ last'.report = "ERROR_INVALID_INPUT"
    /\ layers' = layers
    /\ active' = active

\* C7: a command that ends in a user-input error changes nothing: apply-mask
\* on a layer that is not mask-named or whose base is missing, create-mask
\* (with a selection) on a mask whose base is missing, and swizzle with a code
\* that is not 4 symbols from R, G, B, A, 0, 1 in either case, all return
\* cancelled with an INVALID_INPUT report and leave the layers, their data and
\* the active layer as they were.
C7_InputErrorsChangeNothing ==
    [][/\ (last'.report = "ERROR_INVALID_INPUT") => AbortedUnchanged
       /\ (last'.op = "apply" /\ ~IsMaskNamed(active)) => AbortedUnchanged
       /\ (last'.op = "apply" /\ IsMaskNamed(active) /\ BaseOf(active) \notin Names(layers))
              => (AbortedUnchanged /\ active \in Names(layers'))
       /\ (/\ last'.op = "create"
           /\ last'.arg # {}
           /\ IsMaskNamed(active)
           /\ BaseOf(active) \notin Names(layers)) => AbortedUnchanged
       /\ (last'.op = "swizzle" /\ ~WellFormedCode(last'.arg)) => AbortedUnchanged
       /\ (last'.op = "swizzle" /\ WellFormedCode(last'.arg)) => last'.ret = "FINISHED"]_vars

C7_Witness ==
    /\ last.op = "apply"
    /\ last.ret = "CANCELLED"
    /\ last.report = "ERROR_INVALID_INPUT"
    /\ active = MaskName(nY, <<"R", "B">>)
    /\ active \in Names(layers)
    /\ nY \notin Names(layers)

\* slot x of the vector (r, g, b, a, 0, 1) of colour c
Slot(c, x) ==
    CASE x \in {"R", "r"} -> c[1]
      [] x \in {"G", "g"} -> c[2]
      [] x \in {"B", "b"} -> c[3]
      [] x \in {"A", "a"} -> c[4]
      [] x = "0" -> 0
      [] x = "1" -> 1

\* C8: after swizzle with a valid code c, channel k of every element of the
\* active layer is slot c[k] of (r, g, b, a, 0, 1) taken from that element's
\* colour before the swizzle; no other layer changes; code RGBA changes
\* nothing and code 0000 leaves 0 in all four channels of every element.
C8_SwizzleReadsBeforeWrite ==
    [][(last'.op = "swizzle" /\ WellFormedCode(last'.arg))
       => LET c == last'.arg
              old == Lookup(layers, active)
              new == Lookup(layers', active)
          IN /\ last'.ret = "FINISHED"
             /\ active' = active
             /\ Len(layers') = Len(layers)
             /\ \A j \in 1..Len(layers) : layers'[j].name = layers[j].name
             /\ \A j \in 1..Len(layers) : layers[j].name # active => layers'[j] = layers[j]
             /\ new.domain = old.domain
             /\ Len(new.data) = Len(old.data)
             /\ \A i \in 1..Len(old.data) : \A k \in 1..4 :
                   new.data[i][k] = Slot(old.data[i], c[k])
             /\ (c = <<"R", "G", "B", "A">>) => layers' = layers
             /\ (c = <<"0", "0", "0", "0">>) =>
                   \A i \in 1..Len(new.data) : new.data[i] = <<0, 0, 0, 0>>]_vars

C8_Witness ==
    /\ last.op = "swizzle"
    /\ last.ret = "FINISHED"
    /\ last.arg = <<"G", "R", "A", "B">>
    /\ active = nX
    /\ Lookup(layers, nX).data[1] = <<3, 2, 5, 4>>
    /\ Lookup(layers, nX).data[2] = <<4, 3, 6, 5>>

----------------------------------------------------------------------------
(* Properties of the sampler *)

\* the resources taken on entry are released
Released ==
    /\ sample_vertex_color_timer' = None
    /\ wm_timers' = {}
    /\ cursor' = "DEFAULT"
    /\ header_text' = NoText
    /\ status_text' = NoText

\* C9: while a sampler loop is installed, a left-button press without ctrl
\* ends the loop that handles it in that step (the sampler is idle when it
\* was the only loop), and afterwards the timer is removed and its handle
\* cleared, the cursor is the default one, and header and status text are
\* cleared, whether the sample hit the mesh, missed it or failed.
C9_ClickEndsLoop ==
    [][(last'.op = "modal" /\ last'.arg = <<"LEFTMOUSE", "PRESS", FALSE>>)
       => /\ handlers' = Tail(handlers)
          /\ Len(handlers) = 1 => handlers' = <<>>
          /\ last'.ret \in {"CANCELLED", "RAISED"}
          /\ Released]_vars

C9_Witness ==
    /\ last.op = "modal"
    /\ last.arg = <<"LEFTMOUSE", "PRESS", FALSE>>
    /\ last.branch = "nohit"
    /\ handlers = <<>>
    /\ sample_vertex_color_timer = None
    /\ wm_timers = {}
    /\ cursor = "DEFAULT"
    /\ header_text = NoText
    /\ status_text = NoText

\* C10: while a sampler loop is installed, every right-click or escape event,
\* the first event after entry included, ends the loop in that step with the
\* same cleanup and samples nothing: no header update, no log entry, no
\* brush colour written.
C10_ExitEndsLoopWithoutSampling ==
    [][(last'.op = "modal" /\ last'.arg[1] \in ExitTypes)
       => /\ handlers' = Tail(handlers)
          /\ last'.ret = "CANCELLED"
          /\ last'.branch = "nosample"
          /\ Released
          /\ info_log' = info_log
          /\ brush_color' = brush_color]_vars

\* C11: the overlay visibility is saved on entry and restored on exit:
\* whenever the sampler is idle again, after any invocations (a second one
\* while a loop runs included), events and faults, show_brush has the value it
\* had just before the sampler was entered from idle.
C11_OverlayRestoredWhenIdle ==
    handlers = <<>> => show_brush = shown_on_entry

\* C12: in every reachable state at most one sampler loop is installed and at
\* most one sampler timer is armed.
C12_OneLoopOneTimer ==
    /\ Len(handlers) <= 1
    /\ Cardinality(wm_timers) <= 1

\* C13: when sampling raises during a tick, or entry fails part-way, the
\* cleanup has run in the state in which the error is reported: the timer is
\* removed and its handle cleared, cursor, header and status text are
\* restored, and the overlay visibility is the saved one (for a failed entry,
\* the one before that entry).
C13_FaultsCleanUp ==
    [][/\ (last'.op = "modal" /\ last'.ret = "RAISED")
            => (Released /\ show_brush' = prev_show_brush /\ handlers' = Tail(handlers))
       /\ (last'.op = "invoke" /\ last'.ret = "RAISED")
            => (Released /\ show_brush' = show_brush)]_vars

C13_Witness ==
    /\ last.op = "modal"
    /\ last.ret = "RAISED"
    /\ last.arg[1] = "TIMER"
    /\ Len(Lookup(layers, active).data) # mesh.nverts
    /\ Lookup(layers, active).domain = "POINT"
    /\ handlers = <<>>
    /\ sample_vertex_color_timer = None
    /\ wm_timers = {}
    /\ cursor = "DEFAULT"
    /\ show_brush = shown_on_entry

\* C14: a left press with ctrl held samples, appends the report to the
\* informational log when the sample hits, and leaves the loop installed: the
\* timer, the cursor, the status text and the overlay stay as they are and
\* the brush colour is not written.
C14_CtrlClickKeepsLoop ==
    [][(/\ last'.op = "modal"
        /\ last'.arg = <<"LEFTMOUSE", "PRESS", TRUE>>
        /\ last'.branch \in {"hit", "nohit"})
       => /\ last'.ret = "RUNNING_MODAL"
          /\ Len(handlers') = Len(handlers)
          /\ Tail(handlers') = Tail(handlers)
          /\ sample_vertex_color_timer' = sample_vertex_color_timer
          /\ wm_timers' = wm_timers
          /\ cursor' = cursor
          /\ status_text' = status_text
          /\ show_brush' = show_brush
          /\ brush_color' = brush_color
          /\ (last'.branch = "hit") =>
                (Len(info_log') = Len(info_log) + 1
                 /\ SubSeq(info_log', 1, Len(info_log)) = info_log
                 /\ header_text' = info_log'[Len(info_log')])
          /\ (last'.branch = "nohit") => info_log' = info_log]_vars

C14_Witness ==
    /\ last.op = "modal"
    /\ last.arg = <<"LEFTMOUSE", "PRESS", TRUE>>
    /\ last.branch = "hit"
    /\ Len(handlers) = 1
    /\ sample_vertex_color_timer # None
    /\ sample_vertex_color_timer \in wm_timers
    /\ cursor = "EYEDROPPER"
    /\ Len(info_log) = 1
    /\ brush_color = NoColor

\* C15: every navigation event (middle mouse, wheel up, wheel down), the
\* first event after entry included, is passed through, samples nothing and
\* leaves the sampler and its resources unchanged.
C15_NavigationPassesThrough ==
    [][(last'.op = "modal" /\ last'.arg[1] \in NavigationTypes)
       => /\ last'.ret = "PASS_THROUGH"
          /\ last'.branch = "nosample"
          /\ UNCHANGED samplerVars]_vars

\* the display-space RGB of the colours of a layer
DisplayRGB(layer) ==
    { <<color_srgb(layer.data[i])[1], color_srgb(layer.data[i])[2],
        color_srgb(layer.data[i])[3]>> : i \in 1..Len(layer.data) }

----------------------------------------------------------------------------
(* C17 *)

\* C17: alpha is exclusive in the create-mask channel selection.  After any
\* update of the selection it never holds A together with R, G or B; adding A
\* to a selection that holds R, G or B leaves exactly {A}; and adding R, G or
\* B to a selection that holds A clears A and leaves the added channel
\* selected.
C17_AlphaExclusiveBothWays ==
    [][last'.op = "channels" =>
         /\ ~("A" \in channels_prop' /\ channels_prop' \ {"A"} # {})
         /\ (last'.arg = channels_prop \cup {"A"} /\ channels_prop \ {"A"} # {})
              => channels_prop' = {"A"}
         /\ \A c \in {"R", "G", "B"} :
              ("A" \in channels_prop /\ last'.arg = channels_prop \cup {c})
                => ("A" \notin channels_prop' /\ c \in channels_prop')]_vars


----------------------------------------------------------------------------
(* C19 *)

\* position k holds a minimum of dists and no earlier position does
NearestFirst(dists, k) ==
    /\ k \in 1..Len(dists)
    /\ \A j \in 1..Len(dists) : dists[k] <= dists[j]
    /\ \A j \in 1..(k - 1) : dists[j] # dists[k]

\* C19: on a ray hit of a face, the sampled colour is that of the face's
\* vertex nearest to the hit point, the lowest position in the face winning a
\* tie (distances 3, 1, 2 select the second vertex): a POINT layer gives the
\* element at that vertex's index, a CORNER layer the element at the face's
\* loop index of the same position.  A face without vertices gives no
\* sample.  For a face with vertices, a POINT layer whose length is not the
\* vertex count, a CORNER layer whose length is not the loop count, and a
\* layer of any other domain raise.
C19_PickNearestVertex ==
    (last.op = "pick" /\ last.arg.hit_ok /\ last.arg.face_index \in 1..Len(mesh.polygons)) =>
        LET ray == last.arg
            face == mesh.polygons[ray.face_index]
            color_attr == Lookup(layers, active)
            n == Len(color_attr.data)
        IN IF Len(face.vertices) = 0
           THEN last.ret = "none"
           ELSE IF color_attr.domain = "POINT" /\ n = mesh.nverts
           THEN /\ last.ret = "color"
                /\ \E k \in 1..Len(face.vertices) :
                      /\ NearestFirst(ray.dists, k)
                      /\ last.about = color_attr.data[face.vertices[k]]
                /\ ray.dists = <<3, 1, 2>> => last.about = color_attr.data[face.vertices[2]]
           ELSE IF color_attr.domain = "CORNER" /\ n = mesh.nloops
           THEN /\ last.ret = "color"
                /\ \E k \in 1..Len(face.vertices) :
                      /\ NearestFirst(ray.dists, k)
                      /\ last.about = color_attr.data[face.loop_indices[k]]
                /\ ray.dists = <<3, 1, 2>> => last.about = color_attr.data[face.loop_indices[2]]
           ELSE last.ret = "raise"

\* a hit of the second triangle whose last two vertices are equally near: the
\* CORNER layer gives the colour of loop 5, the earlier of the two
C19_Witness ==
    /\ last.op = "pick"
    /\ last.arg.hit_ok
    /\ last.arg.face_index = 2
    /\ last.arg.dists = <<2, 1, 1>>
    /\ Lookup(layers, active).domain = "CORNER"
    /\ Len(Lookup(layers, active).data) = mesh.nloops
    /\ last.ret = "color"
    /\ last.about = ElemColor(5)


\* C18: in every reachable state the timer handle is set exactly when a
\* sampler loop is installed.
C18_TimerIffActive ==
    (sample_vertex_color_timer # None) <=> (handlers # <<>>)

----------------------------------------------------------------------------
(* C20 *)

\* C20: create-mask never alters the colour data of a layer that existed
\* before the command, whatever its outcome: every layer of the collection is
\* afterwards where and what it was, a layer is at most added.  A request for
\* a mask that already exists ends as a conflict and leaves that mask's data
\* alone, and the branch that would reuse an existing layer of the composite
\* name is never taken.
C20_CreateKeepsExistingData ==
    [][last'.op = "create" =>
         /\ Len(layers') >= Len(layers)
         /\ \A j \in 1..Len(layers) : layers'[j] = layers[j]
         /\ last'.branch # "reused"
         /\ \A b \in CreateTargets :
              (CreateStep /\ MaskName(b, Canon(last'.arg)) \in Names(layers))
                => (layers' = layers /\ last'.branch = "conflict")]_vars

\* the mask X__G, whose colours are not those create-mask would give it, was
\* requested again and still holds them
C20_Witness ==
    /\ last.op = "create"
    /\ last.arg = {"G"}
    /\ last.branch = "conflict"
    /\ last.about[2] = MaskName(nX, <<"G">>)
    /\ Lookup(layers, nX).data[1] = BaseColor
    /\ Lookup(layers, MaskName(nX, <<"G">>)).data[1] = OtherColor

----------------------------------------------------------------------------
(* C21 *)

\* the other masks of the active mask's base whose code shares no channel with
\* the active mask's code
DisjointSiblings ==
    {n \in Names(layers) :
        /\ n # active
        /\ IsMaskNamed(active)
        /\ \E c \in ValidCodes : /\ n = MaskName(BaseOf(active), c)
                                  /\ Range(c) \cap Range(CodeOf(active)) = {}}

\* C21: applying two masks of one base whose codes share no channel gives the
\* same base data and the same remaining collection in either order: after an
\* apply-mask step on the active mask, applying a disjoint sibling gives the
\* collection that applying the sibling first and the active mask second
\* gives; and the step changes, in the base, only the channels of its code.
C21_DisjointAppliesCommute ==
    [][(last'.op = "apply" /\ last'.branch = "applied") =>
         /\ \A n \in DisjointSiblings :
               apply_mask_result(layers', n)
                 = apply_mask_result(apply_mask_result(layers, n), active)
         /\ \A i \in 1..Len(Lookup(layers, BaseOf(active)).data) : \A k \in 1..4 :
               Letter(k) \notin Range(CodeOf(active))
                 => Lookup(layers', BaseOf(active)).data[i][k]
                      = Lookup(layers, BaseOf(active)).data[i][k]]_vars

\* both masks X__R and X__GB have been applied, the second one last: X holds
\* the red of the one and the green and blue of the other
C21_Witness ==
    /\ last.op = "apply"
    /\ last.branch = "applied"
    /\ last.about = MaskName(nX, <<"G", "B">>)
    /\ layers = << [name |-> nX, domain |-> "POINT",
                    data |-> << <<4, 7, 8, 5>>, <<14, 17, 18, 15>> >>] >>

----------------------------------------------------------------------------
(* C22 *)

\* C22: the cleanup run while no sampler loop is installed changes nothing: the
\* timer handle, the overlay visibility, the cursor, the header text and the
\* status text are afterwards what they were.
C22_IdleCleanupChangesNothing ==
    [][(last'.op = "unregister" /\ handlers = <<>>) =>
         UNCHANGED <<sample_vertex_color_timer, show_brush, cursor, header_text,
                     status_text>>]_vars

----------------------------------------------------------------------------
(* C23 *)

\* C23: for every subset S of R, G, B, A, make_channel_str(S) is "A" when A
\* is in S and otherwise the letters of S among R, G, B in that order (the
\* empty string for the empty set); it is empty or one of the 8 valid codes;
\* and make_channel_str of the channel set of its result is its result.
C23_ChannelStrCanonical ==
    last.op = "make_channel_str" =>
        LET S == last.arg
            str == last.about[1]
        IN /\ "A" \in S => str = <<"A">>
           /\ "A" \notin S =>
                 str = SelectSeq(<<"R", "G", "B">>, LAMBDA x : x \in S)
           /\ S = {} => str = <<>>
           /\ str \in ValidCodes \cup {<<>>}
           /\ last.about[2] = str

\* alpha selected together with green: the code is A, and A again when derived
\* from its own channel set
C23_Witness ==
    /\ last.op = "make_channel_str"
    /\ last.arg = {"A", "G"}
    /\ last.about = << <<"A">>, <<"A">> >>

----------------------------------------------------------------------------
(* C24 *)

\* the ways the name n is a base followed by __ and a valid code
SplitsOf(n) ==
    { p \in { <<SubSeq(n, 1, Len(n) - Len(c) - 2), c>> :
                 c \in {d \in ValidCodes : Len(d) + 2 <= Len(n)} } :
        n = p[1] \o <<"_", "_">> \o p[2] }

\* C24: a name B__C with C one of the 8 valid codes is a mask name and parses
\* to exactly (B, C), for base names B without an embedded __ and for the
\* others too; a name that does not end in __ and a valid code is not a mask
\* name and parses to (name, empty code).
C24_MaskNameRoundTrip ==
    last.op = "get_mask_name_parts" =>
        IF SplitsOf(last.arg) # {}
        THEN /\ last.ret = "mask"
             /\ SplitsOf(last.arg) = {last.about}
        ELSE /\ last.ret = "plain"
             /\ last.about = <<last.arg, <<>>>>

\* the name X___RB, whose base X_ ends in an underscore, parses to (X_, RB)
C24_Witness ==
    /\ last.op = "get_mask_name_parts"
    /\ last.arg = <<"X", "_", "_", "_", "R", "B">>
    /\ last.ret = "mask"
    /\ last.about = << <<"X", "_">>, <<"R", "B">> >>

====
